---- MODULE Spec2Model ----
(***************************************************************************)
(* Model of the route generator of neighborhood-tour                      *)
(* (src/route_generator.py): the random wander of generate_random_wander  *)
(* and the arc-length resampling of sample_route_points.                  *)
(*                                                                         *)
(* Numbers.  A coordinate is an integer count of 1e-7 degree (the         *)
(* precision of the street data), a point is <<lat, lng>>.  A distance is *)
(* an integer count of centimetres.  All points lie within a few hundred  *)
(* metres of (0, 0), where the haversine formula agrees with              *)
(* R * (pi / 180) * sqrt(dlat^2 + dlng^2) to far below a centimetre;      *)
(* R * (pi / 180) = 111194.93 m per degree = 1.11195 cm per coordinate    *)
(* unit.  Floating-point results are modelled by exact integer results    *)
(* rounded down to the centimetre; an interpolated coordinate is kept as  *)
(* an exact fraction <<numerator, denominator>>.                          *)
(***************************************************************************)
EXTENDS Integers, Sequences, FiniteSets, TLC

VARIABLES
    pc,              \* where generate_random_wander stands
    start,           \* (start_lat, start_lng)
    target_distance, \* target_distance, cm
    isochrone,       \* polygon of get_walking_isochrone, <<>> for None
    fetched,         \* what get_walkable_streets returned
    ways,            \* the list `ways` the walker uses
    path_coords,     \* the growing polyline
    total_distance,  \* accumulated distance, cm
    visited_ways,    \* ids of the ways walked
    current,         \* (current_lat, current_lng)
    selected_way,    \* id of the way being walked, 0 for none
    segment,         \* vertices of the chosen way still to be walked
    last_total,      \* history: total_distance before the latest append
    relaxed,         \* history: the latest choice came from the 300 m pass
    interval,        \* interval handed to sample_route_points, cm
    route_points,    \* result of sample_route_points
    addresses,       \* batch_generate: what happens to each address of the file
    results,         \* batch_generate: the list `results`
    batch_pc,        \* where batch_generate stands
    radius,          \* get_walkable_streets: radius of the call in progress
    attempts,        \* history: the radii requested so far
    fetch_pc         \* where get_walkable_streets stands

\* The variables of batch_generate and of get_walkable_streets.
batchVars == <<addresses, results, batch_pc>>

fetchVars == <<radius, attempts, fetch_pc>>

vars == <<pc, start, target_distance, isochrone, fetched, ways, path_coords,
          total_distance, visited_ways, current, selected_way, segment,
          last_total, relaxed, interval, route_points, addresses, results,
          batch_pc, radius, attempts, fetch_pc>>

\* batch_generate is not running.
IdleBatch == addresses = <<>> /\ results = <<>> /\ batch_pc = "idle"

\* get_walkable_streets is not running.
IdleFetch == radius = 0 /\ attempts = <<>> /\ fetch_pc = "idle"

(***************************************************************************)
(* Geometry primitives                                                     *)
(***************************************************************************)
Abs(n) == IF n < 0 THEN -n ELSE n

Min2(a, b) == IF a <= b THEN a ELSE b

Max2(a, b) == IF a >= b THEN a ELSE b

\* The element of a one-element set.  Only({e(x) : x \in {v}}) is e(v) with
\* v worked out once, as a Python local variable is.
Only(S) == CHOOSE x \in S : TRUE

\* math.sqrt on a non-negative integer, rounded down (bisection on [lo, hi]).
RECURSIVE SqrtBetween(_, _, _)
SqrtBetween(n, lo, hi) ==
    IF lo >= hi THEN lo
    ELSE Only({ IF mid * mid <= n THEN SqrtBetween(n, mid, hi)
                ELSE SqrtBetween(n, lo, mid - 1) :
                mid \in {(lo + hi + 1) \div 2} })

ISqrt(n) == SqrtBetween(n, 0, Min2(n, 46340))

\* Great-circle distance in cm between two points: R * c with
\* c = sqrt(dlat^2 + dlng^2) radians near (0, 0); 1.11195 cm per unit.
haversine_distance(p, q) ==
    Only({ s + ((s * 11195) \div 100000) :
           s \in {ISqrt((q[1] - p[1]) * (q[1] - p[1])
                        + (q[2] - p[2]) * (q[2] - p[2]))} })

\* floor(100000 * tan(d degrees)) for d = 0 .. 45, at index d + 1.
TanTable ==
    << 0, 1745, 3492, 5240, 6992, 8748, 10510, 12278, 14054, 15838, 17632,
       19438, 21255, 23086, 24932, 26794, 28674, 30573, 32491, 34432, 36397,
       38386, 40402, 42447, 44522, 46630, 48773, 50952, 53170, 55430, 57735,
       60086, 62486, 64940, 67450, 70020, 72654, 75355, 78128, 80978, 83909,
       86928, 90040, 93251, 96568, 100000 >>

\* atan(p / q) in whole degrees, rounded down, for 0 <= p <= q, 0 < q.
AtanDeg(p, q) ==
    LET r == (((p * 1000) \div q) * 100) + ((((p * 1000) % q) * 100) \div q)
    IN  Cardinality({d \in 1..45 : TanTable[d + 1] <= r})

\* math.degrees(math.atan2(x, y)), in whole degrees within (-180, 180].
Atan2Deg(x, y) ==
    LET ax == Abs(x)
        ay == Abs(y)
        th == IF ax = 0 THEN 0
              ELSE IF ax <= ay THEN AtanDeg(ax, ay)
              ELSE 90 - AtanDeg(ay, ax)
    IN  IF x >= 0 THEN (IF y >= 0 THEN th ELSE 180 - th)
        ELSE (IF y >= 0 THEN -th ELSE th - 180)

\* calculate_heading with latitude and longitude exchanged.
calculate_heading_swapped(p, q) == (Atan2Deg(q[1] - p[1], q[2] - p[2]) + 360) % 360

\* Compass heading from p to q: x = sin(dlng) cos(lat2) is the eastward and
\* y = cos(lat1) sin(lat2) - sin(lat1) cos(lat2) cos(dlng) the northward
\* displacement near (0, 0); heading = (degrees(atan2(x, y)) + 360) % 360.
calculate_heading(p, q) == (Atan2Deg(q[2] - p[2], q[1] - p[1]) + 360) % 360

\* lat1 + (lat2 - lat1) * fraction with fraction = num / den, as the exact
\* fraction <<numerator, den>> for either coordinate.
interpolate_point(p, q, num, den) ==
    << <<p[1] * den + (q[1] - p[1]) * num, den>>,
       <<p[2] * den + (q[2] - p[2]) * num, den>> >>

(***************************************************************************)
(* sample_route_points                                                     *)
(***************************************************************************)
\* A RoutePoint with the segment index and fraction it was made from.
RoutePoint(coords, i, num, den) ==
    LET pt == interpolate_point(coords[i], coords[i + 1], num, den)
    IN  [lat |-> pt[1], lng |-> pt[2],
         heading |-> calculate_heading(coords[i], coords[i + 1]),
         seg |-> i, num |-> num, den |-> den]

\* No segment is skipped, however short.
TinyNever(segment_distance) == FALSE

\* segment_distance < 0.1: the segment is skipped.
TinySegment(segment_distance) == segment_distance < 10

\* The loop condition with < for <=: a mark exactly at the segment's end is
\* left to the next segment.
SampleBeforeEnd(next_sample_distance, segment_end) == next_sample_distance < segment_end

\* The loop condition running one interval past the segment's end.
SamplePastEnd(next_sample_distance, segment_end) ==
    next_sample_distance <= segment_end + interval

\* while next_sample_distance <= segment_end
SampleInSegment(next_sample_distance, segment_end) == next_sample_distance <= segment_end

\* The emission test with > for >=.
SampleAfterStart(next_sample_distance, segment_start) == next_sample_distance > segment_start

\* if next_sample_distance >= segment_start
SampleAtOrAfterStart(next_sample_distance, segment_start) == next_sample_distance >= segment_start

\* One pass of the inner while loop on segment i: st = [pts, next].
SampleStep(coords, i, segment_start, segment_distance, ivl, st) ==
    [pts |-> IF SampleAtOrAfterStart(st.next, segment_start)
             THEN Append(st.pts, RoutePoint(coords, i,
                      st.next - segment_start, segment_distance))
             ELSE st.pts,
     next |-> st.next + ivl]

\* The inner while loop on segment i.
RECURSIVE SampleWhile(_, _, _, _, _, _)
SampleWhile(coords, i, segment_start, segment_distance, ivl, st) ==
    IF SampleInSegment(st.next, segment_start + segment_distance)
    THEN Only({ SampleWhile(coords, i, segment_start, segment_distance, ivl, nxt) :
                nxt \in {SampleStep(coords, i, segment_start,
                                    segment_distance, ivl, st)} })
    ELSE st

\* The body of the for loop on a segment that is not skipped.
SampleSegment(coords, i, segment_distance, ivl, st) ==
    Only({ [pts |-> w.pts, next |-> w.next, acc |-> st.acc + segment_distance] :
           w \in {SampleWhile(coords, i, st.acc, segment_distance, ivl,
                              [pts |-> st.pts, next |-> st.next])} })

\* The for loop from index i on: st = [pts, next, acc].
RECURSIVE SampleFor(_, _, _, _)
SampleFor(coords, i, ivl, st) ==
    IF i > Len(coords) - 1 THEN st.pts
    ELSE Only({ IF TinySegment(segment_distance)
                THEN SampleFor(coords, i + 1, ivl, st)
                ELSE Only({ SampleFor(coords, i + 1, ivl, nxt) :
                            nxt \in {SampleSegment(coords, i, segment_distance,
                                                   ivl, st)} }) :
                segment_distance \in
                    {haversine_distance(coords[i], coords[i + 1])} })

sample_route_points(coords, ivl) ==
    IF Len(coords) < 2 THEN <<>>
    ELSE SampleFor(coords, 1, ivl, [pts |-> <<>>, next |-> 0, acc |-> 0])

(***************************************************************************)
(* point_in_polygon and the boundary filter                                *)
(***************************************************************************)
\* One edge (polygon[i], polygon[j]) of the ray casting test:
\* ((lng_i > lng) != (lng_j > lng)) and
\* (lat < (lat_j - lat_i) * (lng - lng_i) / (lng_j - lng_i) + lat_i),
\* the division cleared by multiplying with lng_j - lng_i.
EdgeCrossed(p, a, b) ==
    /\ (a[2] > p[2]) # (b[2] > p[2])
    /\ IF b[2] - a[2] > 0
       THEN (p[1] - a[1]) * (b[2] - a[2]) < (b[1] - a[1]) * (p[2] - a[2])
       ELSE (p[1] - a[1]) * (b[2] - a[2]) > (b[1] - a[1]) * (p[2] - a[2])

point_in_polygon(p, polygon) ==
    LET n == Len(polygon)
        crossed == {i \in 1..n :
                      EdgeCrossed(p, polygon[i], polygon[IF i = 1 THEN n ELSE i - 1])}
    IN  Cardinality(crossed) % 2 = 1

\* Keep way if any of its points are inside the isochrone.
WayInside(way, polygon) ==
    \E k \in 1..Len(way.coords) : point_in_polygon(way.coords[k], polygon)

\* filtered_ways, in the order of ways.
FilteredWays(ws, polygon) ==
    LET Inside(w) == WayInside(w, polygon)
    IN  SelectSeq(ws, Inside)

\* The filter without its fallback: ways = filtered_ways.
FilterNoFallback(filtered_ways, ws) == filtered_ways

\* ways = filtered_ways if filtered_ways else ways
FilterFallback(filtered_ways, ws) == IF filtered_ways # <<>> THEN filtered_ways ELSE ws

\* The list `ways` after lines 249-261.
BoundaryFilter(ws, polygon) ==
    IF polygon # <<>> THEN FilterFallback(FilteredWays(ws, polygon), ws) ELSE ws

(***************************************************************************)
(* The walker of generate_random_wander                                    *)
(***************************************************************************)
\* dist < 200: a vertex of an unvisited way is a candidate.
NearUnvisited(dist) == dist < 20000

\* The relaxed pass with the 200 m threshold of the first pass.
NearRelaxedAt200(dist) == dist < 20000

\* dist < 300: a vertex of any way is a candidate of the relaxed pass.
NearRelaxed(dist) == dist < 30000

\* The append test passing every vertex, near-duplicates included.
MeaningfulAlways(dist) == dist >= 0

\* dist > 5: the vertex is appended to the path.
Meaningful(dist) == dist > 500

\* The loop test never ending the loop.
LoopNeverEnds(total, target) == TRUE

\* while total_distance < target_distance
LoopContinues(total, target) == total < target

\* The break test never taken: the chosen way is always walked to its end.
TargetNeverReached(total, target) == FALSE

\* if total_distance >= target_distance: break
TargetReached(total, target) == total >= target

\* The empty-list check left out.
NoStreetsUnchecked(ws) == FALSE

\* if not ways: raise ValueError
NoStreets(ws) == ws = <<>>

\* min(10, len(candidates))
TopCount == 10

\* (dist, way, i) for every vertex of every way, in the order of the nested
\* for loops; way is the index in ws, i the vertex index (from 1 here).
RECURSIVE VertexList(_, _, _, _)
VertexList(ws, cur, w, i) ==
    IF w > Len(ws) THEN <<>>
    ELSE IF i > Len(ws[w].coords) THEN VertexList(ws, cur, w + 1, 1)
    ELSE <<[dist |-> haversine_distance(cur, ws[w].coords[i]), way |-> w, i |-> i]>>
         \o VertexList(ws, cur, w, i + 1)

\* The first pass without its test of visited_ways.
VisitedCandidatesToo(ws, visited, cur) ==
    LET Keep(c) == NearUnvisited(c.dist)
    IN  SelectSeq(VertexList(ws, cur, 1, 1), Keep)

\* The candidates of the first pass (lines 278-284): unvisited ways only.
UnvisitedCandidates(ws, visited, cur) ==
    LET Keep(c) == ws[c.way].id \notin visited /\ NearUnvisited(c.dist)
    IN  SelectSeq(VertexList(ws, cur, 1, 1), Keep)

\* The relaxed pass skipping the visited ways, as the first pass does.
RelaxedUnvisitedOnly(ws, cur) ==
    LET Keep(c) == ws[c.way].id \notin visited_ways /\ NearRelaxed(c.dist)
    IN  SelectSeq(VertexList(ws, cur, 1, 1), Keep)

\* The candidates of the relaxed pass (lines 288-292): any way.
RelaxedCandidates(ws, cur) ==
    LET Keep(c) == NearRelaxed(c.dist)
    IN  SelectSeq(VertexList(ws, cur, 1, 1), Keep)

\* `candidates` after both passes (lines 277-292).
Candidates(ws, visited, cur) ==
    Only({ IF first # <<>> THEN first ELSE RelaxedCandidates(ws, cur) :
           first \in {UnvisitedCandidates(ws, visited, cur)} })

\* The sort leaving the candidates unsorted, the latest first.
InsertAtFront(sorted, c) == <<c>> \o sorted

\* candidates.sort(key=lambda x: x[0]): a stable insertion sort.
RECURSIVE InsertByDist(_, _)
InsertByDist(sorted, c) ==
    IF sorted = <<>> THEN <<c>>
    ELSE IF c.dist < Head(sorted).dist THEN <<c>> \o sorted
    ELSE <<Head(sorted)>> \o InsertByDist(Tail(sorted), c)

\* The first n candidates, sorted.
RECURSIVE SortUpTo(_, _)
SortUpTo(cands, n) ==
    IF n = 0 THEN <<>>
    ELSE Only({ InsertByDist(sorted, cands[n]) :
                sorted \in {SortUpTo(cands, n - 1)} })

SortByDist(cands) == SortUpTo(cands, Len(cands))

\* top_candidates = candidates[:min(10, len(candidates))]
TopCandidates(cands) ==
    Only({ SubSeq(sorted, 1, Min2(TopCount, Len(sorted))) :
           sorted \in {SortByDist(cands)} })

Reverse(s) == [k \in 1..Len(s) |-> s[Len(s) + 1 - k]]

\* coords[start_idx:] or coords[:start_idx + 1][::-1] (start_idx from 1 here).
WalkSegment(coords, start_idx, forward) ==
    IF forward THEN SubSeq(coords, start_idx, Len(coords))
    ELSE Reverse(SubSeq(coords, 1, start_idx))

\* The walker starting with an empty polyline.
EmptyPath(s) == <<>>

\* path_coords = [(start_lat, start_lng)]
InitialPath(s) == <<s>>

(***************************************************************************)
(* Inputs                                                                  *)
(***************************************************************************)
\* How many ways of WayPool a fetched street list is drawn from.
NumWays == 4

\* How many points a polyline handed to sample_route_points alone may have.
MaxPolyLen == 4

\* Ways as get_walkable_streets returns them: an id and at least two coords.
WayPool ==
    << [id |-> 1, coords |-> << <<0, 0>>, <<0, 4500>> >>],
       [id |-> 2, coords |-> << <<0, 0>>, <<0, 270>> >>],
       [id |-> 3, coords |-> << <<0, 31000>>, <<0, 32000>> >>],
       [id |-> 4, coords |-> << <<2700, 0>>, <<2700, 300>>, <<2700, 4500>> >>],
       [id |-> 5, coords |-> << <<0, 4500>>, <<2700, 4500>> >>],
       [id |-> 6, coords |-> << <<0, 0>>, <<2700, 0>> >>],
       [id |-> 7, coords |-> [k \in 1..12 |-> <<0, 600 * (k - 1)>>]] >>

\* The ways of WayPool with index in S, in the order of the pool.
PoolWays(S) ==
    LET In(w) == w.id \in S
    IN  SelectSeq(WayPool, In)

FetchedLists == {PoolWays(S) : S \in SUBSET (1..NumWays)}

\* The one isolated 50 m segment.
IsolatedGraph == PoolWays({1})

\* One street of 12 vertices about 6.7 m apart: more vertices within 200 m
\* than the walker keeps as top candidates.
DenseGraph == PoolWays({7})

Starts == { <<0, 0>>, <<27500, 0>> }

\* target_distance in cm: 0 m, 100 m.
Targets == {0, 10000}

\* 5000 m.
LongTarget == 500000

\* 20 m.
ShortTarget == 20 * 100

\* None, a square around (0, 0), a square that holds no vertex of the pool.
Isochrones ==
    { <<>>,
      << <<-1000, -1000>>, <<-1000, 1000>>, <<1000, 1000>>, <<1000, -1000>> >>,
      << <<10000, 10000>>, <<10000, 12000>>, <<12000, 12000>>, <<12000, 10000>> >> }

\* SAMPLE_INTERVAL_METERS, in cm.
SAMPLE_INTERVAL == 1000

(***************************************************************************)
(* generate_random_wander as a state machine                               *)
(***************************************************************************)
InitWalk(s, t, iso, f) ==
    /\ pc = "setup"
    /\ start = s
    /\ target_distance = t
    /\ isochrone = iso
    /\ fetched = f
    /\ ways = <<>>
    /\ path_coords = <<>>
    /\ total_distance = 0
    /\ visited_ways = {}
    /\ current = s
    /\ selected_way = 0
    /\ segment = <<>>
    /\ last_total = 0
    /\ relaxed = FALSE
    /\ interval = SAMPLE_INTERVAL
    /\ route_points = <<>>
    /\ IdleBatch
    /\ IdleFetch

InitGeneral ==
    \E s \in Starts, t \in Targets, iso \in Isochrones, f \in FetchedLists :
        InitWalk(s, t, iso, f)

InitIsolated ==
    \E s \in {<<0, 0>>, <<0, 2250>>, <<0, 4500>>} :
        InitWalk(s, LongTarget, <<>>, IsolatedGraph)

InitDense == InitWalk(<<0, 0>>, ShortTarget, <<>>, DenseGraph)

Init == InitGeneral \/ InitIsolated \/ InitDense

\* Lines 244-273: the empty-list check, the boundary filter, the walking state.
Setup ==
    /\ pc = "setup"
    /\ IF NoStreets(fetched)
       THEN /\ pc' = "error"
            /\ UNCHANGED <<ways, path_coords, total_distance, visited_ways, current>>
       ELSE /\ pc' = "seeking"
            /\ ways' = BoundaryFilter(fetched, isochrone)
            /\ path_coords' = InitialPath(start)
            /\ total_distance' = 0
            /\ visited_ways' = {}
            /\ current' = start
    /\ UNCHANGED <<start, target_distance, isochrone, fetched, selected_way,
                   segment, last_total, relaxed, interval, route_points>>
    /\ UNCHANGED <<batchVars, fetchVars>>

\* Lines 275-310: the loop test, both candidate passes, then random.choice
\* taking the k-th of the top candidates and random.random() the direction.
\* When the loop ends instead, no choice is made (k = 1, forward stand for it).
SeekPick(k, forward) ==
    /\ pc = "seeking"
    /\ \E cands \in {Candidates(ways, visited_ways, current)} :
       \E top \in {TopCandidates(cands)} :
           IF ~LoopContinues(total_distance, target_distance) \/ cands = <<>>
           THEN /\ k = 1
                /\ forward
                /\ pc' = "terminated"
                /\ UNCHANGED <<selected_way, segment, relaxed>>
           ELSE /\ k <= Len(top)
                /\ pc' = "extending"
                /\ selected_way' = ways[top[k].way].id
                /\ segment' = WalkSegment(ways[top[k].way].coords, top[k].i, forward)
                /\ relaxed' = (UnvisitedCandidates(ways, visited_ways, current) = <<>>)
    /\ UNCHANGED <<start, target_distance, isochrone, fetched, ways, path_coords,
                   total_distance, visited_ways, current, last_total, interval,
                   route_points>>
    /\ UNCHANGED <<batchVars, fetchVars>>

Seek == \E k \in 1..TopCount, forward \in BOOLEAN : SeekPick(k, forward)

\* Lines 312-322: one pass of the for loop over the chosen vertices; the pass
\* that ends the loop (break, or the last vertex) also marks the way visited.
Extend ==
    /\ pc = "extending"
    /\ LET v == Head(segment)
           dist == haversine_distance(current, v)
           total == IF Meaningful(dist) THEN total_distance + dist ELSE total_distance
       IN  /\ IF Meaningful(dist)
              THEN /\ path_coords' = Append(path_coords, v)
                   /\ total_distance' = total
                   /\ current' = v
                   /\ last_total' = total_distance
              ELSE UNCHANGED <<path_coords, total_distance, current, last_total>>
           /\ IF TargetReached(total, target_distance) \/ Tail(segment) = <<>>
              THEN /\ visited_ways' = visited_ways \cup {selected_way}
                   /\ segment' = <<>>
                   /\ selected_way' = 0
                   /\ pc' = "seeking"
              ELSE /\ segment' = Tail(segment)
                   /\ UNCHANGED <<visited_ways, selected_way, pc>>
    /\ UNCHANGED <<start, target_distance, isochrone, fetched, ways, relaxed,
                   interval, route_points>>
    /\ UNCHANGED <<batchVars, fetchVars>>

\* Lines 324-330: the path is sampled and returned.
Resample ==
    /\ pc = "terminated"
    /\ route_points' = sample_route_points(path_coords, interval)
    /\ pc' = "done"
    /\ UNCHANGED <<start, target_distance, isochrone, fetched, ways, path_coords,
                   total_distance, visited_ways, current, selected_way, segment,
                   last_total, relaxed, interval>>
    /\ UNCHANGED <<batchVars, fetchVars>>

Next == Setup \/ Seek \/ Extend \/ Resample

Spec == Init /\ [][Next]_vars

\* A pick that ends the loop or that leads to an append: the chosen walk
\* holds a vertex more than 5 m from the current position.
SeekProgress ==
    \E k \in 1..TopCount, forward \in BOOLEAN :
        /\ SeekPick(k, forward)
        /\ \/ pc' = "terminated"
           \/ \E n \in 1..Len(segment') :
                  Meaningful(haversine_distance(current, segment'[n]))

\* The interpreter keeps running the function.  random.choice takes each of
\* the at most 10 top candidates with probability 1/10 or more and
\* random.random() each direction with probability about 1/2, independently
\* each time round the loop: a pick that is offered again and again is made
\* again and again with probability 1.
Fairness ==
    /\ WF_vars(Setup)
    /\ WF_vars(Seek)
    /\ WF_vars(Extend)
    /\ WF_vars(Resample)
    /\ SF_vars(SeekProgress)

SpecFair == Init /\ [][Next]_vars /\ Fairness

(***************************************************************************)
(* sample_route_points on its own                                          *)
(***************************************************************************)
SamplePoints ==
    { <<0, 0>>, <<0, 5>>, <<0, 89>>, <<0, 90>>, <<0, 180>>, <<90, 90>>,
      <<0, 450>> }

\* [(0, 0), (0, 0.001)]
ExamplePolyline == << <<0, 0>>, <<0, 10000>> >>

Polylines == UNION {[1..n -> SamplePoints] : n \in 0..MaxPolyLen}

\* interval in cm: 1 m, 50 m.
Intervals == {100, 5000}

\* 50 m, the interval of the example.
ExampleInterval == 50 * 100

\* The (path_coords, interval) pairs sample_route_points is called with.
SampleCalls ==
    (Polylines \X Intervals) \cup {<<ExamplePolyline, ExampleInterval>>}

InitSample ==
    /\ pc = "terminated"
    /\ \E call \in SampleCalls :
           /\ path_coords = call[1]
           /\ interval = call[2]
    /\ start = <<0, 0>>
    /\ target_distance = 0
    /\ isochrone = <<>>
    /\ fetched = <<>>
    /\ ways = <<>>
    /\ total_distance = 0
    /\ visited_ways = {}
    /\ current = <<0, 0>>
    /\ selected_way = 0
    /\ segment = <<>>
    /\ last_total = 0
    /\ relaxed = FALSE
    /\ route_points = <<>>
    /\ IdleBatch
    /\ IdleFetch

SpecSample == InitSample /\ [][Resample]_vars

\* generate_random_wander is not running.
IdleWalk ==
    /\ pc = "idle"
    /\ start = <<0, 0>>
    /\ target_distance = 0
    /\ isochrone = <<>>
    /\ fetched = <<>>
    /\ ways = <<>>
    /\ path_coords = <<>>
    /\ total_distance = 0
    /\ visited_ways = {}
    /\ current = <<0, 0>>
    /\ selected_way = 0
    /\ segment = <<>>
    /\ last_total = 0
    /\ relaxed = FALSE
    /\ interval = SAMPLE_INTERVAL
    /\ route_points = <<>>

walkVars == <<pc, start, target_distance, isochrone, fetched, ways, path_coords,
              total_distance, visited_ways, current, selected_way, segment,
              last_total, relaxed, interval, route_points>>

(***************************************************************************)
(* batch_generate and generate_tour (src/main.py)                          *)
(***************************************************************************)
\* How many addresses the hotels file may hold.
MaxAddresses == 3

\* What happens to an address inside generate_tour: all four steps succeed,
\* or geocoding, route generation, image fetching or video creation raises
\* an Exception.
Outcomes == {"ok", "geocode", "route", "images", "video"}

\* The non-comment lines of the hotels file, each with its outcome.
AddressFiles == UNION {[1..n -> Outcomes] : n \in 0..MaxAddresses}

\* generate_tour: each of the four steps is wrapped in try / except
\* Exception whose handler calls sys.exit(1), which raises SystemExit;
\* otherwise the path of the video is returned.
generate_tour(outcome) ==
    IF outcome = "ok" THEN "video_path" ELSE "SystemExit"

\* except Exception as e: SystemExit derives from BaseException, not from
\* Exception, and is not caught.
CaughtByExcept(raised) == raised = "Exception"

InitBatch ==
    /\ addresses \in AddressFiles
    /\ results = <<>>
    /\ batch_pc = "start"
    /\ IdleWalk
    /\ IdleFetch

\* Lines 139-157: the addresses are read; an empty list ends the process.
BatchStart ==
    /\ batch_pc = "start"
    /\ batch_pc' = IF addresses = <<>> THEN "exited" ELSE "looping"
    /\ results' = <<>>
    /\ UNCHANGED <<addresses, walkVars, fetchVars>>

\* Lines 158-167: one pass of the for loop; every pass that completes
\* appends one entry, so the next address is at Len(results) + 1.
BatchStep ==
    /\ batch_pc = "looping"
    /\ Len(results) < Len(addresses)
    /\ LET got == generate_tour(addresses[Len(results) + 1])
       IN  IF got = "video_path"
           THEN results' = Append(results, "OK") /\ UNCHANGED batch_pc
           ELSE IF CaughtByExcept(got)
           THEN results' = Append(results, "FAILED") /\ UNCHANGED batch_pc
           ELSE batch_pc' = "exited" /\ UNCHANGED results
    /\ UNCHANGED <<addresses, walkVars, fetchVars>>

\* Lines 169-177: after the loop the summary is printed.
BatchSummary ==
    /\ batch_pc = "looping"
    /\ Len(results) = Len(addresses)
    /\ batch_pc' = "summary"
    /\ UNCHANGED <<addresses, results, walkVars, fetchVars>>

NextBatch == BatchStart \/ BatchStep \/ BatchSummary

SpecBatch == InitBatch /\ [][NextBatch]_vars

(***************************************************************************)
(* get_walkable_streets: the request and its retry                         *)
(***************************************************************************)
\* The largest radius get_walkable_streets is first called with.
MaxRadius == 1700

\* DEFAULT_RADIUS_METERS
DEFAULT_RADIUS == 800

\* What requests.post / raise_for_status does: an answer, one of the two
\* exceptions the function catches, or another exception.
Responses == {"ok", "Timeout", "HTTPError", "ConnectionError"}

\* The retry test letting a radius of exactly 400 be retried.
RetryFrom400(r) == r >= 400

\* if radius > 400
RetryAllowed(r) == r > 400

InitFetch ==
    /\ radius \in 0..MaxRadius
    /\ attempts = <<>>
    /\ fetch_pc = "requesting"
    /\ IdleWalk
    /\ IdleBatch

\* Lines 126-136 (and 138-159 on an answer): one call of the function; the
\* recursive call is the next step, with half the radius.
Request(response) ==
    /\ fetch_pc = "requesting"
    /\ attempts' = Append(attempts, radius)
    /\ IF response = "ok"
       THEN fetch_pc' = "returned" /\ UNCHANGED radius
       ELSE IF response \in {"Timeout", "HTTPError"}
       THEN IF RetryAllowed(radius)
            THEN radius' = radius \div 2 /\ UNCHANGED fetch_pc
            ELSE fetch_pc' = "ValueError" /\ UNCHANGED radius
       ELSE fetch_pc' = response /\ UNCHANGED radius
    /\ UNCHANGED <<walkVars, batchVars>>

Fetch == \E response \in Responses : Request(response)

SpecFetch == InitFetch /\ [][Fetch]_vars

(***************************************************************************)
(* Measures of a polyline used by the properties                           *)
(***************************************************************************)
SegLen(coords, i) == haversine_distance(coords[i], coords[i + 1])

\* Total length of the first n segments.
RECURSIVE LengthUpTo(_, _)
LengthUpTo(coords, n) ==
    IF n <= 0 THEN 0 ELSE LengthUpTo(coords, n - 1) + SegLen(coords, n)

PathLength(coords) == LengthUpTo(coords, Len(coords) - 1)

\* Length of those of the first n segments that are 0.1 m long or longer.
RECURSIVE CountedUpTo(_, _)
CountedUpTo(coords, n) ==
    IF n <= 0 THEN 0
    ELSE CountedUpTo(coords, n - 1)
         + (IF SegLen(coords, n) >= 10 THEN SegLen(coords, n) ELSE 0)

CountedLength(coords) == CountedUpTo(coords, Len(coords) - 1)

\* Where a route point is along the path: the counted length before its
\* segment plus its share of the segment.  num / den is the fraction.
AlongCounted(coords, rp) == CountedUpTo(coords, rp.seg - 1) + rp.num

\* The same with every segment counted.
AlongPath(coords, rp) == LengthUpTo(coords, rp.seg - 1) + rp.num

\* The polyline runs along one straight line in one direction.
Straight(coords) ==
    \A i, j \in 1..(Len(coords) - 1) :
        LET a == <<coords[i + 1][1] - coords[i][1], coords[i + 1][2] - coords[i][2]>>
            b == <<coords[j + 1][1] - coords[j][1], coords[j + 1][2] - coords[j][2]>>
        IN  /\ a[1] * b[2] = a[2] * b[1]
            /\ a[1] * b[1] + a[2] * b[2] >= 0

Sampled == pc = "done"

(***************************************************************************)
(* Properties of the walker                                                *)
(***************************************************************************)
Ended == pc \in {"terminated", "done"}

\* The run of C1: the graph is the one isolated 50 m segment, the start lies
\* on it, the target is 5000 m.
IsolatedRun ==
    /\ fetched = IsolatedGraph
    /\ target_distance = LongTarget
    /\ start[1] = 0 /\ 0 <= start[2] /\ start[2] <= 4500

\* C1 as stated: on the isolated 50 m segment with a target of 5000 m the
\* walker ends with an accumulated distance of about 50 m (at most 55 m),
\* and raises no error.
C1_IsolatedEndsAt50 ==
    IsolatedRun => /\ pc # "error"
                   /\ Ended => total_distance <= 5500

\* C1 amended: on the isolated 50 m segment with a target of 5000 m the
\* walker raises no error and never ends short: the segment stays within
\* the relaxed 300 m threshold and is walked again and again, so a run that
\* ends has accumulated at least 5000 m (and less than 5000 m plus one
\* 50 m step) over a path that only alternates between the segment's ends.
C1_IsolatedReachesTarget ==
    IsolatedRun =>
        /\ pc # "error"
        /\ Ended => /\ total_distance >= target_distance
                    /\ total_distance < target_distance + 5004
        /\ \A k \in 2..Len(path_coords) : path_coords[k] \in {<<0, 0>>, <<0, 4500>>}

C1_Witness ==
    /\ IsolatedRun
    /\ pc = "done"
    /\ total_distance >= LongTarget
    /\ Len(path_coords) > 100

\* C2: every run of the walker eventually ends (the loop exits and the
\* function returns, or the function raises).
C2_Terminates == <>(pc \in {"done", "error"})

\* C3: the accumulated distance never decreases, and every append happens
\* while it is strictly below the target, so on termination it exceeds the
\* target by less than the length of the step appended last.
C3_DistanceMonotone ==
    [][/\ total_distance' >= total_distance
       /\ path_coords' # path_coords /\ pc = "extending"
              => /\ total_distance < target_distance
                 /\ last_total' = total_distance
                 /\ total_distance' - target_distance
                        < haversine_distance(current, current')
       /\ pc' \in {"terminated", "done"} /\ total_distance' >= target_distance
              /\ target_distance > 0
              => last_total' < target_distance]_vars

\* A run that ended beyond its target after several appends.
C3_Witness ==
    /\ pc = "done"
    /\ target_distance > 0
    /\ total_distance > target_distance
    /\ Len(path_coords) >= 3

\* No vertex of any way of the graph is strictly closer than 300 m to p.
NothingWithin300(p) ==
    \A w \in 1..Len(ways) : \A i \in 1..Len(ways[w].coords) :
        haversine_distance(p, ways[w].coords[i]) >= 30000

\* C4: the walker ends below its target only when no way, visited or not,
\* has a vertex within 300 m of its final position; no error is raised, and
\* the polyline built so far is what the resampler is given.
C4_ShortOnlyWhenNothingNear ==
    (Ended /\ total_distance < target_distance)
    => /\ NothingWithin300(current)
       /\ ways # <<>>
       /\ path_coords # <<>>
       /\ current = path_coords[Len(path_coords)]
       /\ pc = "done" => route_points = sample_route_points(path_coords, interval)

\* A run over a non-empty graph that ended short of its target.
C4_Witness ==
    /\ pc = "done"
    /\ total_distance < target_distance
    /\ Len(ways) >= 2

\* The fetched ways with at least one vertex inside the polygon.
WaysInside(polygon) ==
    {fetched[k] : k \in {j \in 1..Len(fetched) :
        \E v \in 1..Len(fetched[j].coords) :
            point_in_polygon(fetched[j].coords[v], polygon)}}

SeqRange(q) == {q[k] : k \in 1..Len(q)}

IsSubSeq(a, b) ==
    /\ Cardinality(SeqRange(a)) = Len(a)
    /\ \A i, j \in 1..Len(a) :
           i < j => \E m, n \in 1..Len(b) : m < n /\ b[m] = a[i] /\ b[n] = a[j]

\* C8: with a boundary polygon the walker's graph is exactly the fetched
\* ways with a vertex inside the polygon (in fetched order), unless there is
\* none, and then it is the whole fetched list; it is never empty.
C8_BoundaryFilter ==
    (pc \notin {"setup", "error"} /\ isochrone # <<>>)
    => /\ ways # <<>>
       /\ IsSubSeq(ways, fetched)
       /\ IF WaysInside(isochrone) # {}
          THEN SeqRange(ways) = WaysInside(isochrone)
          ELSE ways = fetched

\* The polygon excludes every fetched way and the graph is the fetched list.
C8_Witness ==
    /\ pc = "seeking"
    /\ isochrone # <<>>
    /\ Len(fetched) >= 2
    /\ WaysInside(isochrone) = {}
    /\ ways = fetched

\* C9: when no street was fetched the function raises before any walking
\* state exists (no polyline, no route point), and the loop is never entered
\* with an empty graph.
C9_EmptyGraphFailsFast ==
    /\ (fetched = <<>> /\ pc # "setup")
           => /\ pc = "error"
              /\ path_coords = <<>>
              /\ route_points = <<>>
              /\ total_distance = 0
    /\ pc \in {"seeking", "extending", "terminated", "done"} => ways # <<>>
    /\ pc = "error" => fetched = <<>>

C9_Witness == pc = "error" /\ fetched = <<>> /\ path_coords = <<>>

\* A step in which the walker chooses a way to walk.
Picked == pc = "seeking" /\ pc' = "extending"

\* Some vertex of the way with this id is strictly closer than d cm to p.
WayWithin(id, p, d) ==
    \E w \in 1..Len(ways) :
        /\ ways[w].id = id
        /\ \E i \in 1..Len(ways[w].coords) :
               haversine_distance(p, ways[w].coords[i]) < d

\* Some unvisited way has a vertex strictly closer than 200 m to p.
UnvisitedWithin200(p) ==
    \E w \in 1..Len(ways) :
        ways[w].id \notin visited_ways /\ WayWithin(ways[w].id, p, 20000)

\* C11: while an unvisited way has a vertex within 200 m the chosen way is
\* unvisited and within 200 m; a visited way is chosen only when there is no
\* such way, through the relaxed pass, and then it has a vertex within 300 m.
C11_RevisitOnlyWhenRelaxed ==
    [][Picked =>
          IF UnvisitedWithin200(current)
          THEN /\ selected_way' \notin visited_ways
               /\ WayWithin(selected_way', current, 20000)
               /\ ~relaxed'
          ELSE /\ WayWithin(selected_way', current, 30000)
               /\ relaxed']_vars

\* A visited way chosen again in a graph of several ways.
C11_Witness ==
    /\ pc = "extending"
    /\ selected_way \in visited_ways
    /\ relaxed
    /\ Len(ways) >= 2

\* How many candidates come before the j-th in a stable sort by distance.
Rank(cands, j) ==
    Cardinality({m \in 1..Len(cands) :
        \/ cands[m].dist < cands[j].dist
        \/ cands[m].dist = cands[j].dist /\ m < j})

\* The min(10, n) candidates of smallest distance.
Closest(cands) ==
    {cands[j] : j \in {k \in 1..Len(cands) : Rank(cands, k) < 10}}

\* C12: among a non-empty candidate list the top candidates are the
\* min(10, n) of smallest distance, each of them can be chosen with either
\* direction, and the chosen (way, vertex) is one of them: no candidate
\* outside them is strictly closer than the chosen one.
C12_PickAmongClosest ==
    /\ [](pc = "seeking" =>
            \E cands \in {Candidates(ways, visited_ways, current)} :
            \E top \in {TopCandidates(cands)} :
                /\ Len(top) = Min2(10, Len(cands))
                /\ SeqRange(top) = Closest(cands)
                /\ (LoopContinues(total_distance, target_distance) /\ cands # <<>>)
                       => \A k \in 1..Len(top), forward \in BOOLEAN :
                              ENABLED SeekPick(k, forward))
    /\ [][Picked =>
            \E cands \in {Candidates(ways, visited_ways, current)} :
            \E closest \in {Closest(cands)} :
            \E c \in closest, forward \in BOOLEAN :
                /\ selected_way' = ways[c.way].id
                /\ segment' = WalkSegment(ways[c.way].coords, c.i, forward)
                /\ \A d \in SeqRange(cands) \ closest : d.dist >= c.dist]_vars

\* The tenth closest of twelve candidates was chosen.
C12_Witness ==
    /\ pc = "extending"
    /\ fetched = DenseGraph
    /\ visited_ways = {}
    /\ path_coords = <<start>>
    /\ Head(segment) = <<0, 5400>>

\* C13: consecutive points of the polyline are more than 5 m apart and the
\* accumulated distance is the sum of the distances between them.
C13_PolylineSpacing ==
    pc \notin {"setup", "error"}
    => /\ \A i \in 1..(Len(path_coords) - 1) : SegLen(path_coords, i) > 500
       /\ total_distance = PathLength(path_coords)

\* A walk along the street whose second vertex is 3.3 m from its first: the
\* second vertex was left out of the polyline.
C13_Witness ==
    /\ Ended
    /\ \E i \in 1..(Len(path_coords) - 1) :
           /\ path_coords[i] = <<2700, 0>>
           /\ path_coords[i + 1] = <<2700, 4500>>

\* C14: once the accumulated distance has reached the target nothing more
\* is appended and the walker goes to its end without choosing again; the
\* step that reaches the target leaves the rest of the way unwalked and
\* marks the way visited.
C14_StopAtTarget ==
    [][/\ (pc \in {"seeking", "extending"} /\ total_distance >= target_distance)
            => /\ pc' = "terminated"
               /\ path_coords' = path_coords
               /\ visited_ways' = visited_ways
       /\ (pc = "extending" /\ total_distance' >= target_distance)
            => /\ pc' = "seeking"
               /\ segment' = <<>>
               /\ selected_way \in visited_ways'
               /\ path_coords' = Append(path_coords, Head(segment))]_vars

\* The target was reached at an inner vertex of the 12-vertex street: the
\* rest of the street was not walked.
C14_Witness ==
    /\ pc = "terminated"
    /\ fetched = DenseGraph
    /\ total_distance >= target_distance
    /\ current[2] > 0 /\ current[2] < 6600
    /\ visited_ways = {7}

\* C15: the polyline is never empty, starts with the caller's start, and
\* ends with the walker's current position.
C15_PathStartsAtStart ==
    pc \notin {"setup", "error"}
    => /\ path_coords # <<>>
       /\ path_coords[1] = start
       /\ current = path_coords[Len(path_coords)]

\* The walker has moved away from the start.
C15_Witness ==
    /\ pc = "extending"
    /\ Len(path_coords) >= 3
    /\ current # start

(***************************************************************************)
(* Properties of sample_route_points                                       *)
(***************************************************************************)
SameHeadings ==
    \A k, l \in 1..Len(route_points) : route_points[k].heading = route_points[l].heading

\* C5 as stated: for a straight-line polyline of total length L and interval
\* I, exactly floor(L / I) + 1 points are emitted, the k-th at distance
\* (k - 1) * I along the line, all with the same heading.  (Stated here
\* only for polylines with a segment of 0.1 m or more.)
C5_StraightLineCount ==
    (Sampled /\ Straight(path_coords) /\ CountedLength(path_coords) > 0)
    => /\ Len(route_points) = (PathLength(path_coords) \div interval) + 1
       /\ \A k \in 1..Len(route_points) :
              AlongPath(path_coords, route_points[k]) = (k - 1) * interval
       /\ SameHeadings

\* C5 amended: for a straight-line polyline with at least one segment of
\* 0.1 m or more, L being the total length of its segments of 0.1 m or more
\* (shorter ones are skipped and add no length), exactly floor(L / I) + 1
\* points are emitted, the k-th at counted distance (k - 1) * I, all with
\* the same heading.
C5_StraightLineCountedCount ==
    (Sampled /\ Straight(path_coords) /\ CountedLength(path_coords) > 0)
    => /\ Len(route_points) = (CountedLength(path_coords) \div interval) + 1
       /\ \A k \in 1..Len(route_points) :
              AlongCounted(path_coords, route_points[k]) = (k - 1) * interval
       /\ SameHeadings

\* A straight line of three points or more sampled with a mark exactly on
\* an interior vertex (emitted at the end of the first segment).
C5_Witness ==
    /\ Sampled
    /\ Straight(path_coords)
    /\ Len(path_coords) >= 3
    /\ Len(route_points) >= 3
    /\ route_points[2].seg = 1
    /\ route_points[2].num = route_points[2].den
    /\ route_points[3].seg > 1

C7_OnThePolyline ==
    Sampled =>
        \A k \in 1..Len(route_points) :
            LET rp == route_points[k]
                p == path_coords[rp.seg]
                q == path_coords[rp.seg + 1]
            IN  /\ rp.seg \in 1..(Len(path_coords) - 1)
                /\ 0 <= rp.num /\ rp.num <= rp.den /\ rp.den > 0
                /\ rp.lat[2] = rp.den /\ rp.lng[2] = rp.den
                /\ Min2(p[1], q[1]) * rp.den <= rp.lat[1]
                /\ rp.lat[1] <= Max2(p[1], q[1]) * rp.den
                /\ Min2(p[2], q[2]) * rp.den <= rp.lng[1]
                /\ rp.lng[1] <= Max2(p[2], q[2]) * rp.den
                /\ rp.lat[1] - p[1] * rp.den = (q[1] - p[1]) * rp.num
                /\ rp.lng[1] - p[2] * rp.den = (q[2] - p[2]) * rp.num
                /\ AlongPath(path_coords, rp) <= PathLength(path_coords)

\* The last point is emitted exactly at the end of the polyline.
C7_Witness ==
    /\ Sampled
    /\ Len(path_coords) = 3
    /\ route_points # <<>>
    /\ route_points[Len(route_points)].seg = 2
    /\ route_points[Len(route_points)].num = route_points[Len(route_points)].den
    /\ AlongPath(path_coords, route_points[Len(route_points)]) = PathLength(path_coords)

\* The polyline [(0, 0), (0, 0.001)] of (lat, lng) points, interval 50 m.
ExampleRun ==
    /\ Sampled
    /\ path_coords = ExamplePolyline
    /\ interval = ExampleInterval

\* C10 as stated: three points, at 0, 50 and 100 m, each heading about 0
\* degrees (within 5 degrees of due north).
C10_ExampleNorth ==
    ExampleRun =>
        /\ Len(route_points) = 3
        /\ \A k \in 1..Len(route_points) :
               /\ AlongPath(path_coords, route_points[k]) = (k - 1) * 5000
               /\ (route_points[k].heading <= 5 \/ route_points[k].heading >= 355)

\* C10 amended: three points, at 0, 50 and 100 m along the segment, each with
\* heading 90 degrees (due east: the second coordinate, the longitude, grows).
C10_ExampleEast ==
    ExampleRun =>
        /\ Len(route_points) = 3
        /\ \A k \in 1..Len(route_points) :
               /\ AlongPath(path_coords, route_points[k]) = (k - 1) * 5000
               /\ route_points[k].lat[1] = 0
               /\ route_points[k].lng = <<10000 * (k - 1) * 5000, 11119>>
               /\ route_points[k].heading = 90

C10_Witness == ExampleRun /\ Len(route_points) = 3

\* The segments of 0.1 m or more.
CountedSegments(coords) ==
    {i \in 1..(Len(coords) - 1) : SegLen(coords, i) >= 10}

\* C16: every point carries the heading of the segment it was interpolated
\* on; that segment is 0.1 m long or longer; a mark at the start of a
\* segment (fraction 0) is emitted there only when no counted segment comes
\* before it, so a mark on a shared vertex belongs to the earlier segment;
\* and the number of points follows the counted length alone.
C16_HeadingOfOwnSegment ==
    Sampled =>
        /\ \A k \in 1..Len(route_points) :
               LET rp == route_points[k]
               IN  /\ rp.seg \in CountedSegments(path_coords)
                   /\ rp.heading = calculate_heading(path_coords[rp.seg],
                                                    path_coords[rp.seg + 1])
                   /\ rp.num = 0 =>
                          \A j \in CountedSegments(path_coords) : j >= rp.seg
        /\ Len(route_points) =
               IF CountedSegments(path_coords) = {} THEN 0
               ELSE (CountedLength(path_coords) \div interval) + 1

\* A mark falls on the vertex where the polyline turns: it is emitted with
\* fraction 1 and the heading of the segment before the turn, the next point
\* has another heading; the polyline also has a segment too short to count.
C16_Witness ==
    /\ Sampled
    /\ \E i \in 1..(Len(path_coords) - 1) : SegLen(path_coords, i) < 10
    /\ \E k \in 1..(Len(route_points) - 1) :
           /\ route_points[k].num = route_points[k].den
           /\ route_points[k].seg + 1 \in CountedSegments(path_coords)
           /\ route_points[k + 1].heading # route_points[k].heading

(***************************************************************************)
(* Properties of batch_generate                                            *)
(***************************************************************************)
\* C17: when batch_generate is over, an address whose tour failed has a
\* FAILED entry, every address of the file has an entry, and the summary
\* was reached.
C17_BatchCoversAll ==
    (batch_pc \in {"summary", "exited"} /\ addresses # <<>>)
    => /\ batch_pc = "summary"
       /\ Len(results) = Len(addresses)
       /\ \A i \in 1..Len(addresses) :
              results[i] = IF addresses[i] = "ok" THEN "OK" ELSE "FAILED"

(***************************************************************************)
(* Properties of get_walkable_streets                                      *)
(***************************************************************************)
RECURSIVE Pow2(_)
Pow2(n) == IF n <= 0 THEN 1 ELSE 2 * Pow2(n - 1)

\* C18: a failed request is followed by another exactly when its radius is
\* above 400, and then with half the radius, rounded down; ValueError is
\* raised exactly when a request at 400 or below fails.  The radii
\* requested fall strictly, each at most half of the one before, so there
\* are finitely many; from 800 they are 800 and 400, then the error.
C18_RetryAbove400 ==
    /\ \A k \in 1..(Len(attempts) - 1) :
           /\ attempts[k] > 400
           /\ attempts[k + 1] = attempts[k] \div 2
           /\ attempts[k + 1] < attempts[k]
    /\ (fetch_pc = "requesting" /\ attempts # <<>>)
           => /\ attempts[Len(attempts)] > 400
              /\ radius = attempts[Len(attempts)] \div 2
    /\ fetch_pc = "ValueError"
           => /\ attempts # <<>>
              /\ attempts[Len(attempts)] <= 400
              /\ radius = attempts[Len(attempts)]
    /\ Len(attempts) >= 2 => attempts[1] >= 401 * Pow2(Len(attempts) - 2)
    /\ (fetch_pc = "ValueError" /\ attempts[1] = DEFAULT_RADIUS)
           => attempts = <<800, 400>>

\* The default radius under persistent failure.
C18_Witness ==
    /\ fetch_pc = "ValueError"
    /\ attempts = <<DEFAULT_RADIUS, 400>>

====
